---- MODULE Spec2Model ----
(***************************************************************************)
(* A model of the SimpleClock plugin (manager.py): the seven-segment       *)
(* rasterizer (dimension calculator, glyph table, digit, colon and line    *)
(* composer), the configuration validator and the display() handler with   *)
(* its change detection and its handling of failing update() and           *)
(* display-manager calls.                                                  *)
(*                                                                         *)
(* Python strings are sequences of one-character strings.  The token       *)
(* "SUP2" stands for the single character U+00B2 (SUPERSCRIPT TWO), a      *)
(* character for which str.isdigit() is True and which is no key of the    *)
(* glyph table.                                                            *)
(***************************************************************************)
EXTENDS Integers, Sequences, FiniteSets, TLC

VARIABLES
    width, height,          \* display_manager.width, display_manager.height
    font_char_width,        \* display_manager.font: pixels per character, 0 = no font
    pytz,                   \* whether the pytz module was imported
    now,                    \* the wall clock: the index of the current instant
    faults,                 \* how many statements have raised so far
    canvas,                 \* display manager: what was drawn since the last clear
    shown,                  \* display manager: the frame update_display pushed last
    \* configuration, set by __init__
    timezone_str, time_format, show_seconds, show_date, date_format,
    display_style, time_color, date_color, ampm_color, segment_color,
    \* set by update()
    current_dt, current_time, current_ampm, current_date, current_weekday,
    \* what display() drew last
    last_time_str, last_ampm_str, last_date_str, last_weekday_str,
    pc,                     \* position inside the seven-segment helpers
    call,                   \* the operation invoked last, with its arguments
    cmds,                   \* display-manager calls issued by that operation
    ret,                    \* its return value
    time_str,               \* _draw_seven_segment_time: time_str
    idx,                    \* _draw_seven_segment_time: position of the for loop
    start_x,                \* _display_seven_segment: start_x
    current_x,              \* _draw_seven_segment_time: current_x
    estimated_width         \* _display_seven_segment: estimated_width

host == <<width, height, font_char_width, pytz>>

device == <<canvas, shown>>

env == <<host, faults, device>>

config == <<timezone_str, time_format, show_seconds, show_date, date_format,
            display_style, time_color, date_color, ampm_color, segment_color>>

current == <<current_dt, current_time, current_ampm, current_date, current_weekday>>

last == <<last_time_str, last_ampm_str, last_date_str, last_weekday_str>>

segLocals == <<time_str, idx, start_x, current_x, estimated_width>>

vars == <<env, now, config, current, last, pc, call, cmds, ret, segLocals>>

-----------------------------------------------------------------------------
(* Bounds *)

MaxW == 256

MaxLen == 3

\* At most this many statements raise in one behaviour.
MaxFaults == 2

-----------------------------------------------------------------------------
(* Python built-ins *)

Min(a, b) == IF a < b THEN a ELSE b

Max(a, b) == IF a > b THEN a ELSE b

NoneVal == "None"

\* None where a string is expected, and an attribute that was never set.
PyNone == <<"None">>

Unset == <<"unset">>

HasAttr(v) == v # Unset

GetAttr(v, default) == IF v = Unset THEN default ELSE v

\* bool(v) of a string or None
Truthy(v) == v # PyNone /\ v # <<>>

\* f"{v}"
Format(v) == IF v = PyNone THEN <<"N", "o", "n", "e">> ELSE v

RECURSIVE LStrip(_, _)
LStrip(s, c) == IF s # <<>> /\ Head(s) = c THEN LStrip(Tail(s), c) ELSE s

RECURSIVE RStrip(_, _)
RStrip(s, c) ==
    IF s # <<>> /\ s[Len(s)] = c THEN RStrip(SubSeq(s, 1, Len(s) - 1), c) ELSE s

\* str.strip() of a string whose only whitespace is the space
Strip(s) == RStrip(LStrip(s, " "), " ")

\* An argument passed to the display manager, and one left to its default.
Arg(v) == <<v>>

Omitted == <<>>

AsciiDigits == {"0", "1", "2", "3", "4", "5", "6", "7", "8", "9"}

\* str.isdigit(): true of the ASCII digits and of other Unicode digits.
IsDigit(c) == c \in AsciiDigits \cup {"SUP2"}

\* int(n * 1.6) for an integer n >= 0: the float product truncated.
IntTimes1_6(n) == (n * 16) \div 10

\* int(n / 1.6) for an integer n >= 0.
IntDiv1_6(n) == (n * 10) \div 16

-----------------------------------------------------------------------------
(* Seven-segment helpers *)

DrawSegment(x, y, w, h, color) ==
    [op |-> "rectangle", x0 |-> x, y0 |-> y,
     x1 |-> x + w - 1, y1 |-> y + h - 1, fill |-> color, ok |-> TRUE]

GetSegmentPatterns ==
    [c \in AsciiDigits \cup {"A", "P", "M"} |->
        CASE c = "0" -> <<"a", "b", "c", "d", "e", "f">>
          [] c = "1" -> <<"b", "c">>
          [] c = "2" -> <<"a", "b", "g", "e", "d">>
          [] c = "3" -> <<"a", "b", "g", "c", "d">>
          [] c = "4" -> <<"f", "g", "b", "c">>
          [] c = "5" -> <<"a", "f", "g", "c", "d">>
          [] c = "6" -> <<"a", "f", "g", "c", "d", "e">>
          [] c = "7" -> <<"a", "b", "c">>
          [] c = "8" -> <<"a", "b", "c", "d", "e", "f", "g">>
          [] c = "9" -> <<"a", "b", "c", "f", "g">>
          [] c = "A" -> <<"a", "b", "c", "e", "f", "g">>
          [] c = "P" -> <<"a", "b", "e", "f", "g">>
          [] c = "M" -> <<"a", "b", "c", "e", "f">>]

\* The thickness left unclamped.
CalculateSegmentDimensionsNoClamp(W) ==
    LET thickness == W \div 32
        digit_width0 == W \div 6
        digit_height0 == IntTimes1_6(digit_width0)
        small == digit_height0 < 10
        digit_height == IF small THEN 10 ELSE digit_height0
        digit_width == IF small THEN IntDiv1_6(digit_height) ELSE digit_width0
    IN  [thickness |-> thickness,
         width     |-> digit_width,
         height    |-> digit_height,
         h_len     |-> digit_width - (2 * thickness),
         v_len     |-> (digit_height - (3 * thickness)) \div 2,
         spacing   |-> thickness + 1]

\* The minimum height of small displays left out.
CalculateSegmentDimensionsNoFloor(W) ==
    LET thickness == Max(1, Min(3, W \div 32))
        digit_width == W \div 6
        digit_height == IntTimes1_6(digit_width)
    IN  [thickness |-> thickness,
         width     |-> digit_width,
         height    |-> digit_height,
         h_len     |-> digit_width - (2 * thickness),
         v_len     |-> (digit_height - (3 * thickness)) \div 2,
         spacing   |-> thickness + 1]

\* A fifth of the canvas width per digit instead of a sixth.
CalculateSegmentDimensionsFifth(W) ==
    LET thickness == Max(1, Min(3, W \div 32))
        digit_width0 == W \div 5
        digit_height0 == IntTimes1_6(digit_width0)
        small == digit_height0 < 10
        digit_height == IF small THEN 10 ELSE digit_height0
        digit_width == IF small THEN IntDiv1_6(digit_height) ELSE digit_width0
    IN  [thickness |-> thickness,
         width     |-> digit_width,
         height    |-> digit_height,
         h_len     |-> digit_width - (2 * thickness),
         v_len     |-> (digit_height - (3 * thickness)) \div 2,
         spacing   |-> thickness + 1]

CalculateSegmentDimensions(W) ==
    LET thickness == Max(1, Min(3, W \div 32))
        digit_width0 == W \div 6
        digit_height0 == IntTimes1_6(digit_width0)
        small == digit_height0 < 10
        digit_height == IF small THEN 10 ELSE digit_height0
        digit_width == IF small THEN IntDiv1_6(digit_height) ELSE digit_width0
    IN  [thickness |-> thickness,
         width     |-> digit_width,
         height    |-> digit_height,
         h_len     |-> digit_width - (2 * thickness),
         v_len     |-> (digit_height - (3 * thickness)) \div 2,
         spacing   |-> thickness + 1]

\* patterns.get(char, [])
SegmentsOf(char) ==
    IF char \in DOMAIN GetSegmentPatterns THEN GetSegmentPatterns[char] ELSE <<>>

InList(s, list) == \E i \in 1..Len(list) : list[i] = s

\* Segment c drawn at segment b's vertical offset.
DrawSevenSegmentDigitMisplacedC(char, x, y, color, W) ==
    LET dims == CalculateSegmentDimensions(W)
        t == dims.thickness
        w == dims.width
        h_len == dims.h_len
        v_len == dims.v_len
        segments == SegmentsOf(char)
        If(s, r) == IF InList(s, segments) THEN <<r>> ELSE <<>>
    IN  If("a", DrawSegment(x + t, y, h_len, t, color))
        \o If("b", DrawSegment(x + w - t, y + t, t, v_len, color))
        \o If("c", DrawSegment(x + w - t, y + t, t, v_len, color))
        \o If("d", DrawSegment(x + t, y + 2*v_len + 2*t, h_len, t, color))
        \o If("e", DrawSegment(x, y + 2*t + v_len, t, v_len, color))
        \o If("f", DrawSegment(x, y + t, t, v_len, color))
        \o If("g", DrawSegment(x + t, y + t + v_len, h_len, t, color))

DrawSevenSegmentDigit(char, x, y, color, W) ==
    LET dims == CalculateSegmentDimensions(W)
        t == dims.thickness
        w == dims.width
        h_len == dims.h_len
        v_len == dims.v_len
        segments == SegmentsOf(char)
        If(s, r) == IF InList(s, segments) THEN <<r>> ELSE <<>>
    IN  If("a", DrawSegment(x + t, y, h_len, t, color))
        \o If("b", DrawSegment(x + w - t, y + t, t, v_len, color))
        \o If("c", DrawSegment(x + w - t, y + 2*t + v_len, t, v_len, color))
        \o If("d", DrawSegment(x + t, y + 2*v_len + 2*t, h_len, t, color))
        \o If("e", DrawSegment(x, y + 2*t + v_len, t, v_len, color))
        \o If("f", DrawSegment(x, y + t, t, v_len, color))
        \o If("g", DrawSegment(x + t, y + t + v_len, h_len, t, color))

\* The colon reporting only its dots' width, without the 2 pixel margin.
DrawSevenSegmentColonNoMargin(x, y, color, W) ==
    LET dims == CalculateSegmentDimensions(W)
        t == dims.thickness
        h == dims.height
        dot_size == t
    IN  [cmds |-> << DrawSegment(x, y + h \div 3, dot_size, dot_size, color),
                     DrawSegment(x, y + (2*h) \div 3, dot_size, dot_size, color) >>,
         ret  |-> dot_size]

DrawSevenSegmentColon(x, y, color, W) ==
    LET dims == CalculateSegmentDimensions(W)
        t == dims.thickness
        h == dims.height
        dot_size == t
    IN  [cmds |-> << DrawSegment(x, y + h \div 3, dot_size, dot_size, color),
                     DrawSegment(x, y + (2*h) \div 3, dot_size, dot_size, color) >>,
         ret  |-> dot_size + 2]

\* Every character that is no colon treated as a digit.
DrawSevenSegmentTimeCharNoIsDigit(char, cur_x, start_y, color, W) ==
    LET dims == CalculateSegmentDimensions(W)
        char_width == dims.width
        spacing == dims.spacing
        colon == DrawSevenSegmentColon(cur_x, start_y, color, W)
    IN  IF char = ":"
        THEN [cmds |-> colon.cmds, current_x |-> cur_x + colon.ret + spacing]
        ELSE [cmds |-> DrawSevenSegmentDigit(char, cur_x, start_y, color, W),
              current_x |-> cur_x + char_width + spacing]

\* One iteration of the for loop of _draw_seven_segment_time.
DrawSevenSegmentTimeChar(char, cur_x, start_y, color, W) ==
    LET dims == CalculateSegmentDimensions(W)
        char_width == dims.width
        spacing == dims.spacing
        colon == DrawSevenSegmentColon(cur_x, start_y, color, W)
    IN  IF char = ":"
        THEN [cmds |-> colon.cmds, current_x |-> cur_x + colon.ret + spacing]
        ELSE IF IsDigit(char)
        THEN [cmds |-> DrawSevenSegmentDigit(char, cur_x, start_y, color, W),
              current_x |-> cur_x + char_width + spacing]
        ELSE [cmds |-> <<>>, current_x |-> cur_x]

\* sum(c.isdigit() for c in time_str)
NumDigits(s) == Cardinality({i \in 1..Len(s) : IsDigit(s[i])})

\* time_str.count(':')
NumColons(s) == Cardinality({i \in 1..Len(s) : s[i] = ":"})

\* _display_seven_segment, lines 352-357: the width used for centering.
EstimatedWidth(s, W) ==
    LET dims == CalculateSegmentDimensions(W)
        digit_width == dims.width
        spacing == dims.spacing
        num_digits == NumDigits(s)
        num_colons == NumColons(s)
        colon_width == dims.thickness + 2
    IN  (num_digits * digit_width) + (num_digits * spacing)
        + (num_colons * (colon_width + spacing))

StartX(s, W) == (W - EstimatedWidth(s, W)) \div 2

StartY == 4

-----------------------------------------------------------------------------
(* The seven-segment helpers as a state machine: SpecSeg *)

TimeChars == {"1", "8", ":", "P", "SUP2"}

DigitArgs == AsciiDigits \cup {"A", "P", "M", "X", "SUP2"}

Anchors == {0, 4}

RECURSIVE SeqsUpTo(_, _)
SeqsUpTo(S, n) ==
    IF n = 0 THEN {<<>>}
    ELSE LET shorter == SeqsUpTo(S, n - 1)
         IN  shorter \cup {Append(s, c) : s \in shorter, c \in S}

\* Time strings as update() formats them: "%H:%M", "%-I:%M" and "%H:%M:%S".
ClockStrings ==
    {<<"1", "2", ":", "3", "4">>, <<"1", ":", "0", "5">>,
     <<"1", "3", ":", "0", "5", ":", "0", "9">>}

TimeStrings == SeqsUpTo(TimeChars, MaxLen) \cup ClockStrings

\* The calls of the seven-segment helpers that SpecSeg makes: one call per
\* behaviour, its arguments drawn here.
SegCalls ==
    {[op |-> "digit", char |-> c, x |-> x, y |-> y, s |-> <<>>] :
        c \in DigitArgs, x \in Anchors, y \in Anchors}
    \cup {[op |-> "colon", char |-> ":", x |-> x, y |-> y, s |-> <<>>] :
        x \in Anchors, y \in Anchors}
    \cup {[op |-> "time", char |-> "", x |-> 0, y |-> StartY, s |-> s] :
        s \in TimeStrings}

\* The plugin as __init__ leaves it, for a seven-segment configuration with
\* the defaults of the other options.
DefaultPlugin ==
    /\ font_char_width = 0
    /\ faults = 0
    /\ canvas = <<>>
    /\ shown = <<>>
    /\ pytz = TRUE
    /\ now = 1
    /\ timezone_str = "UTC"
    /\ time_format = "12h"
    /\ show_seconds = FALSE
    /\ show_date = TRUE
    /\ date_format = "OLD_CLOCK"
    /\ display_style = "seven_segment"
    /\ time_color = <<255, 255, 255>>
    /\ date_color = <<255, 128, 64>>
    /\ ampm_color = <<255, 255, 128>>
    /\ segment_color = <<255, 255, 255>>
    /\ current_dt = 0
    /\ current_time = Unset
    /\ current_ampm = Unset
    /\ current_date = Unset
    /\ current_weekday = Unset
    /\ last_time_str = PyNone
    /\ last_ampm_str = PyNone
    /\ last_date_str = PyNone
    /\ last_weekday_str = PyNone

InitSeg ==
    /\ width \in 1..MaxW
    /\ height = 32
    /\ DefaultPlugin
    /\ pc = "call"
    /\ call \in SegCalls
    /\ cmds = <<>>
    /\ ret = NoneVal
    /\ time_str = <<>>
    /\ idx = 0
    /\ start_x = 0
    /\ current_x = 0
    /\ estimated_width = 0

\* _draw_seven_segment_digit(char, x, y, color)
SegDigit ==
    /\ pc = "call"
    /\ call.op = "digit"
    /\ cmds' = DrawSevenSegmentDigit(call.char, call.x, call.y, segment_color, width)
    /\ pc' = "done"
    /\ UNCHANGED <<env, now, config, current, last, call, ret, segLocals>>

\* _draw_seven_segment_colon(x, y, color)
SegColon ==
    /\ pc = "call"
    /\ call.op = "colon"
    /\ cmds' = DrawSevenSegmentColon(call.x, call.y, segment_color, width).cmds
    /\ ret' = DrawSevenSegmentColon(call.x, call.y, segment_color, width).ret
    /\ pc' = "done"
    /\ UNCHANGED <<env, now, config, current, last, call, segLocals>>

\* _display_seven_segment from its estimate of the width to its call of
\* _draw_seven_segment_time, and that function up to its loop.
SegBegin ==
    /\ pc = "call"
    /\ call.op = "time"
    /\ time_str' = call.s
    /\ estimated_width' = EstimatedWidth(call.s, width)
    /\ start_x' = StartX(call.s, width)
    /\ current_x' = StartX(call.s, width)
    /\ idx' = 1
    /\ pc' = "loop"
    /\ UNCHANGED <<env, now, config, current, last, call, cmds, ret>>

\* One iteration of the loop over time_str.
SegLoop ==
    /\ pc = "loop"
    /\ idx <= Len(time_str)
    /\ LET r == DrawSevenSegmentTimeChar(time_str[idx], current_x, StartY,
                                         segment_color, width)
       IN  /\ cmds' = cmds \o r.cmds
           /\ current_x' = r.current_x
    /\ idx' = idx + 1
    /\ UNCHANGED <<env, now, config, current, last, pc, call, ret,
                   time_str, start_x, estimated_width>>

\* return current_x - start_x
SegReturn ==
    /\ pc = "loop"
    /\ idx > Len(time_str)
    /\ ret' = current_x - start_x
    /\ pc' = "done"
    /\ UNCHANGED <<env, now, config, current, last, call, cmds, segLocals>>

NextSeg == SegDigit \/ SegColon \/ SegBegin \/ SegLoop \/ SegReturn

SpecSeg == InitSeg /\ [][NextSeg]_vars

-----------------------------------------------------------------------------
(* Properties of the seven-segment helpers, checked under SpecSeg *)

Dims == CalculateSegmentDimensions(width)

TimeDone == pc = "done" /\ call.op = "time"

DigitDone == pc = "done" /\ call.op = "digit"

\* C1: for every canvas width in 8..MaxW and every time string, the width
\* _display_seven_segment precomputes for centering equals the extent
\* _draw_seven_segment_time returns, and start_x = (W - that extent) // 2.
C1_EstimateEqualsExtent ==
    (TimeDone /\ width >= 8) =>
        /\ ret = estimated_width
        /\ current_x - start_x = estimated_width
        /\ start_x = (width - ret) \div 2

C1_Witness ==
    /\ TimeDone
    /\ width = 64
    /\ time_str = <<"1", "2", ":", "3", "4">>
    /\ Dims.width = 10
    /\ ret = 59
    /\ start_x = 2
    /\ Len(cmds) = 18

\* Two rectangles of the drawing surface share a pixel (corners inclusive).
Overlap(r1, r2) ==
    /\ r1.x0 <= r2.x1 /\ r2.x0 <= r1.x1
    /\ r1.y0 <= r2.y1 /\ r2.y0 <= r1.y1

\* C2: for every canvas width in 8..MaxW and every character, the rectangles
\* _draw_seven_segment_digit emits for it are pairwise disjoint.
C2_SegmentsDisjoint ==
    (DigitDone /\ width >= 8) =>
        \A i, j \in 1..Len(cmds) : i < j => ~Overlap(cmds[i], cmds[j])

C2_Witness ==
    /\ DigitDone
    /\ width = 8
    /\ call.char = "8"
    /\ Len(cmds) = 7

\* C3: for every canvas width in 1..MaxW the dimensions have h_len >= 1 and
\* v_len >= 1, and no rectangle of zero or negative width or height is emitted.
C3_PositiveSegmentLengths ==
    /\ Dims.h_len >= 1
    /\ Dims.v_len >= 1
    /\ \A i \in 1..Len(cmds) :
          cmds[i].op = "rectangle" =>
              cmds[i].x1 >= cmds[i].x0 /\ cmds[i].y1 >= cmds[i].y0

C3_Witness ==
    /\ DigitDone
    /\ width = 1
    /\ call.char = "8"
    /\ Len(cmds) = 7
    /\ Dims.h_len = 4
    /\ Dims.v_len = 3

\* The rectangle (x, y, width, height) the digit renderer is to emit for a
\* segment of a glyph anchored at (x, y).
SegmentBox(seg, x, y, d) ==
    LET t == d.thickness
        w == d.width
    IN  CASE seg = "a" -> <<x + t, y, d.h_len, t>>
          [] seg = "b" -> <<x + w - t, y + t, t, d.v_len>>
          [] seg = "c" -> <<x + w - t, y + 2*t + d.v_len, t, d.v_len>>
          [] seg = "d" -> <<x + t, y + 2*d.v_len + 2*t, d.h_len, t>>
          [] seg = "e" -> <<x, y + 2*t + d.v_len, t, d.v_len>>
          [] seg = "f" -> <<x, y + t, t, d.v_len>>
          [] seg = "g" -> <<x + t, y + t + d.v_len, d.h_len, t>>

BoxOf(cmd) == <<cmd.x0, cmd.y0, cmd.x1 - cmd.x0 + 1, cmd.y1 - cmd.y0 + 1>>

GlyphSegments(char) == {SegmentsOf(char)[i] : i \in 1..Len(SegmentsOf(char))}

\* C4: _draw_seven_segment_digit emits exactly one rectangle per segment of
\* the character's glyph-table entry, at the fixed offsets: seven for '8',
\* two for '1', none for a character outside the table, and on a 64 pixel
\* wide canvas six for '0' (a, b, c, d, e, f and not g).
C4_OneRectanglePerSegment ==
    DigitDone =>
        /\ Len(cmds) = Cardinality(GlyphSegments(call.char))
        /\ \A seg \in GlyphSegments(call.char) :
              Cardinality({i \in 1..Len(cmds) :
                  BoxOf(cmds[i]) = SegmentBox(seg, call.x, call.y, Dims)}) = 1
        /\ \A i \in 1..Len(cmds) : cmds[i].op = "rectangle"
        /\ call.char = "8" => Len(cmds) = 7
        /\ call.char = "1" => Len(cmds) = 2
        /\ call.char \in {"X", "SUP2"} => Len(cmds) = 0
        /\ (call.char = "0" /\ width = 64) =>
              /\ Dims.thickness = 2 /\ Dims.width = 10 /\ Dims.height = 16
              /\ Len(cmds) = 6
              /\ {BoxOf(cmds[i]) : i \in 1..Len(cmds)} =
                    {SegmentBox(seg, call.x, call.y, Dims) :
                        seg \in {"a", "b", "c", "d", "e", "f"}}
              /\ \A i \in 1..Len(cmds) :
                    BoxOf(cmds[i]) # SegmentBox("g", call.x, call.y, Dims)

C4_Witness ==
    /\ DigitDone
    /\ width = 64
    /\ call.char = "0"
    /\ call.x = 0 /\ call.y = 0
    /\ Len(cmds) = 6

\* n * 1.6 rounded to the nearest integer (n * 1.6 is never halfway).
RoundTimes1_6(n) == (n * 16 + 5) \div 10

\* C5 as claimed: digit_height is digit_width * 1.6 rounded to the nearest
\* integer, forced to 10 (with digit_width 6) only when that is below 10.
C5_RoundedHeight ==
    width >= 8 =>
        LET r == RoundTimes1_6(width \div 6)
        IN  IF r < 10
            THEN Dims.height = 10 /\ Dims.width = 6
            ELSE Dims.height = r /\ Dims.width = width \div 6

\* C5 as amended: digit_height is digit_width * 1.6 truncated to an integer
\* (the largest h with 10 * h <= 16 * digit_width), forced to 10 (with
\* digit_width 6) only when that is below 10.
C5_TruncatedHeight ==
    width >= 8 =>
        LET dw == width \div 6
        IN  IF 16 * dw < 100
            THEN Dims.height = 10 /\ Dims.width = 6
            ELSE /\ Dims.width = dw
                 /\ 10 * Dims.height <= 16 * dw
                 /\ 16 * dw < 10 * (Dims.height + 1)

C5_Witness ==
    /\ width = 48
    /\ pc = "done"
    /\ Dims.width = 8
    /\ Dims.height = 12
    /\ RoundTimes1_6(8) = 13

LoopStep == pc = "loop" /\ idx' = idx + 1

\* C6 as claimed: a ':' advances the cursor by (thickness + 2) + spacing and
\* draws the colon, a decimal digit 0-9 draws the digit and advances by
\* digit_width + spacing, any other character draws nothing and leaves the
\* cursor unchanged.
C6_OtherCharactersSkipped ==
    [][LoopStep =>
        LET c == time_str[idx]
        IN  /\ c = ":" =>
                /\ current_x' = current_x + (Dims.thickness + 2) + Dims.spacing
                /\ Len(cmds') = Len(cmds) + 2
            /\ c \in AsciiDigits =>
                /\ current_x' = current_x + Dims.width + Dims.spacing
                /\ Len(cmds') = Len(cmds) + Cardinality(GlyphSegments(c))
                /\ Len(cmds') > Len(cmds)
            /\ (c # ":" /\ c \notin AsciiDigits) =>
                /\ current_x' = current_x
                /\ cmds' = cmds
    ]_vars

\* C6 as amended: a ':' advances the cursor by (thickness + 2) + spacing and
\* draws the colon; a character for which isdigit() holds advances it by
\* digit_width + spacing and draws the segments of its glyph-table entry,
\* which are none for a digit outside the table; any other character draws
\* nothing and leaves the cursor unchanged.  Every loop ends in a return.
C6_IsDigitCharactersAdvance ==
    /\ [][LoopStep =>
            LET c == time_str[idx]
            IN  /\ c = ":" =>
                    /\ current_x' = current_x + (Dims.thickness + 2) + Dims.spacing
                    /\ Len(cmds') = Len(cmds) + 2
                /\ (c # ":" /\ IsDigit(c)) =>
                    /\ current_x' = current_x + Dims.width + Dims.spacing
                    /\ Len(cmds') = Len(cmds) + Cardinality(GlyphSegments(c))
                    /\ c \in AsciiDigits => Len(cmds') > Len(cmds)
                /\ (c # ":" /\ ~IsDigit(c)) =>
                    /\ current_x' = current_x
                    /\ cmds' = cmds
                /\ \A i \in 1..Len(cmds) : cmds'[i] = cmds[i]
       ]_vars
    /\ [](pc = "loop" => idx \in 1..(Len(time_str) + 1))

C6_Witness ==
    /\ pc = "loop"
    /\ idx = 3
    /\ time_str = <<"P", "SUP2", ":">>
    /\ cmds = <<>>
    /\ current_x = start_x + Dims.width + Dims.spacing

\* thickness as the specification states it: W // 32 clamped to [1, 3].
Clamp(v, lo, hi) == IF v < lo THEN lo ELSE IF v > hi THEN hi ELSE v

\* C9: for every canvas width in 8..MaxW the thickness is 1, 2 or 3, equal to
\* W // 32 clamped to [1, 3], and never decreases as the width increases (it
\* is no smaller than that of the canvas one pixel narrower, for every width).
C9_ThicknessClampedMonotone ==
    width >= 8 =>
        /\ Dims.thickness \in {1, 2, 3}
        /\ Dims.thickness = Clamp(width \div 32, 1, 3)
        /\ width > 8 =>
              CalculateSegmentDimensions(width - 1).thickness <= Dims.thickness

C9_Witness ==
    /\ width = MaxW
    /\ pc = "done"
    /\ Dims.thickness = 3
    /\ CalculateSegmentDimensions(8).thickness = 1
    /\ CalculateSegmentDimensions(64).thickness = 2

\* A time string without seconds: at most four digits and one colon.
NoSeconds(s) == NumDigits(s) <= 4 /\ NumColons(s) <= 1

\* The rectangle r lies inside the digit cell whose top-left corner is (x, y).
InCell(r, x, y) ==
    /\ x <= r.x0 /\ r.x1 <= x + Dims.width - 1
    /\ y <= r.y0 /\ r.y1 <= y + Dims.height - 1

\* C13: for every canvas width in 64..MaxW and every time string without
\* seconds the centered seven-segment line lies inside the canvas
\* horizontally (start_x >= 0 and start_x + consumed width <= W), and every
\* rectangle of every digit lies inside its own cell
\* [x, x+digit_width) x [y, y+digit_height).
C13_LineInsideCanvas ==
    /\ []((TimeDone /\ width >= 64 /\ NoSeconds(time_str)) =>
             /\ start_x >= 0
             /\ start_x + ret <= width)
    /\ []((DigitDone /\ width >= 64) =>
             \A i \in 1..Len(cmds) : InCell(cmds[i], call.x, call.y))
    /\ [][(LoopStep /\ width >= 64 /\ time_str[idx] # ":") =>
             \A i \in (Len(cmds) + 1)..Len(cmds') :
                 InCell(cmds'[i], current_x, StartY)
       ]_vars

\* "12:34" on a 66 pixel canvas: digits 11 wide, the line 63 wide from x = 1.
C13_Witness ==
    /\ TimeDone
    /\ width = 66
    /\ time_str = <<"1", "2", ":", "3", "4">>
    /\ Dims.width = 11
    /\ start_x = 1
    /\ start_x + ret = 64
    /\ InCell(cmds[1], start_x, StartY)

-----------------------------------------------------------------------------
(* datetime.strftime *)

DigitChars == <<"0", "1", "2", "3", "4", "5", "6", "7", "8", "9">>

\* %H, %I, %M, %S, %m, %d: two digits, zero padded
Pad2(n) == <<DigitChars[(n \div 10) + 1], DigitChars[(n % 10) + 1]>>

\* %Y
Pad4(n) == Pad2(n \div 100) \o Pad2(n % 100)

\* %B
MonthNames ==
    << <<"J", "a", "n", "u", "a", "r", "y">>,
       <<"F", "e", "b", "r", "u", "a", "r", "y">>,
       <<"M", "a", "r", "c", "h">>,
       <<"A", "p", "r", "i", "l">>,
       <<"M", "a", "y">>,
       <<"J", "u", "n", "e">>,
       <<"J", "u", "l", "y">>,
       <<"A", "u", "g", "u", "s", "t">>,
       <<"S", "e", "p", "t", "e", "m", "b", "e", "r">>,
       <<"O", "c", "t", "o", "b", "e", "r">>,
       <<"N", "o", "v", "e", "m", "b", "e", "r">>,
       <<"D", "e", "c", "e", "m", "b", "e", "r">> >>

\* %A, Monday first
WeekdayNames ==
    << <<"M", "o", "n", "d", "a", "y">>,
       <<"T", "u", "e", "s", "d", "a", "y">>,
       <<"W", "e", "d", "n", "e", "s", "d", "a", "y">>,
       <<"T", "h", "u", "r", "s", "d", "a", "y">>,
       <<"F", "r", "i", "d", "a", "y">>,
       <<"S", "a", "t", "u", "r", "d", "a", "y">>,
       <<"S", "u", "n", "d", "a", "y">> >>

\* %I
Hour12(h) == IF h % 12 = 0 THEN 12 ELSE h % 12

\* %p
AmPm(h) == IF h < 12 THEN <<"A", "M">> ELSE <<"P", "M">>

\* The instants at which the wall clock is read, in the configured timezone.
\* Wednesday 2025-11-19 01:05:09 and 13:05:09 (the same 12h time, AM and PM),
\* Thursday 2025-11-20 13:05:09 (the same time, the next day) and 13:06:10.
Instants ==
    << [year |-> 2025, month |-> 11, day |-> 19, weekday |-> 3,
        hour |-> 1, minute |-> 5, second |-> 9],
       [year |-> 2025, month |-> 11, day |-> 19, weekday |-> 3,
        hour |-> 13, minute |-> 5, second |-> 9],
       [year |-> 2025, month |-> 11, day |-> 20, weekday |-> 4,
        hour |-> 13, minute |-> 5, second |-> 9],
       [year |-> 2025, month |-> 11, day |-> 20, weekday |-> 4,
        hour |-> 13, minute |-> 6, second |-> 10] >>

-----------------------------------------------------------------------------
(* Formatting *)

FormatTime12h(dt) ==
    LET hm == Pad2(Hour12(dt.hour)) \o <<":">> \o Pad2(dt.minute)
        hms == IF show_seconds THEN hm \o <<":">> \o Pad2(dt.second) ELSE hm
    IN  [time_str |-> IF Head(hms) = "0" THEN Tail(hms) ELSE hms,
         ampm     |-> AmPm(dt.hour)]

FormatTime24h(dt) ==
    LET hm == Pad2(dt.hour) \o <<":">> \o Pad2(dt.minute)
    IN  IF show_seconds THEN hm \o <<":">> \o Pad2(dt.second) ELSE hm

GetOrdinalSuffix(day) ==
    IF 10 <= day % 100 /\ day % 100 <= 20
    THEN <<"t", "h">>
    ELSE CASE day % 10 = 1 -> <<"s", "t">>
           [] day % 10 = 2 -> <<"n", "d">>
           [] day % 10 = 3 -> <<"r", "d">>
           [] OTHER -> <<"t", "h">>

FormatDate(dt) ==
    CASE date_format = "MM/DD/YYYY" ->
            Pad2(dt.month) \o <<"/">> \o Pad2(dt.day) \o <<"/">> \o Pad4(dt.year)
      [] date_format = "DD/MM/YYYY" ->
            Pad2(dt.day) \o <<"/">> \o Pad2(dt.month) \o <<"/">> \o Pad4(dt.year)
      [] date_format = "YYYY-MM-DD" ->
            Pad4(dt.year) \o <<"-">> \o Pad2(dt.month) \o <<"-">> \o Pad2(dt.day)
      [] date_format = "OLD_CLOCK" ->
            MonthNames[dt.month] \o <<" ">> \o Pad2(dt.day) \o GetOrdinalSuffix(dt.day)
      [] OTHER ->
            Pad2(dt.month) \o <<"/">> \o Pad2(dt.day) \o <<"/">> \o Pad4(dt.year)

\* 'Wed Nov 19'
FormatDateForSevenSegment(dt) ==
    LET day == LStrip(Pad2(dt.day), "0")
    IN  SubSeq(WeekdayNames[dt.weekday], 1, 3) \o <<" ">>
        \o SubSeq(MonthNames[dt.month], 1, 3) \o <<" ">> \o day

\* update(): the current_* attributes it leaves, read at instant n.
Update(n) ==
    LET local_time == Instants[n]
    IN  [current_dt      |-> n,
         current_time    |-> IF time_format = "12h"
                             THEN FormatTime12h(local_time).time_str
                             ELSE FormatTime24h(local_time),
         current_ampm    |-> IF time_format = "12h"
                             THEN FormatTime12h(local_time).ampm
                             ELSE current_ampm,
         current_date    |-> IF show_date THEN FormatDate(local_time)
                             ELSE current_date,
         current_weekday |-> IF show_date THEN WeekdayNames[local_time.weekday]
                             ELSE current_weekday]

\* The first and the last statement of update() that may raise; the try
\* block is left there and the except clause of line 193 logs the exception
\* and returns.
\*   "now"    line 160-164, before any attribute is assigned
\*   "date"   line 187, after current_dt, current_time and current_ampm
UpdateFailPoints == {"none", "now", "date"}

\* update() when the statement at point raises: the current_* attributes
\* assigned before it, the others as they were.
UpdateRaising(n, point) ==
    LET done == Update(n)
        old == [current_dt |-> current_dt, current_time |-> current_time,
                current_ampm |-> current_ampm, current_date |-> current_date,
                current_weekday |-> current_weekday]
    IN  CASE point = "none" -> done
          [] point = "now" -> old
          [] point = "date" -> [done EXCEPT !.current_date = old.current_date,
                                            !.current_weekday = old.current_weekday]

-----------------------------------------------------------------------------
(* The calls display() makes on the display manager *)

Clear == [op |-> "clear", ok |-> TRUE]

UpdateDisplay == [op |-> "update_display", ok |-> TRUE]

\* Reading an attribute that was never assigned: raises AttributeError.
AttributeError == [op |-> "AttributeError", ok |-> FALSE]

DrawText(text, x, y, color, small_font, centered) ==
    [op |-> "draw_text", text |-> text, x |-> x, y |-> y, color |-> color,
     small_font |-> small_font, centered |-> centered, ok |-> TRUE]

\* _draw_seven_segment_time: the whole loop.
RECURSIVE DrawSevenSegmentTime(_, _, _, _, _)
DrawSevenSegmentTime(s, x, start_y, color, W) ==
    IF s = <<>>
    THEN [cmds |-> <<>>, current_x |-> x]
    ELSE LET r == DrawSevenSegmentTimeChar(Head(s), x, start_y, color, W)
             rest == DrawSevenSegmentTime(Tail(s), r.current_x, start_y, color, W)
         IN  [cmds |-> r.cmds \o rest.cmds, current_x |-> rest.current_x]

\* _display_seven_segment: the calls it makes when none fails, for the
\* current_* attributes cur.
DisplaySevenSegment(cur) ==
    LET dims == CalculateSegmentDimensions(width)
        total_height == dims.height
        t_str == GetAttr(cur.current_time, <<"0", "0", ":", "0", "0">>)
        sx == StartX(t_str, width)
        date_y == StartY + total_height + 4
    IN  <<Clear>>
        \o DrawSevenSegmentTime(t_str, sx, StartY, segment_color, width).cmds
        \o (IF show_date /\ cur.current_dt # 0 /\ date_y + 8 <= height
            THEN <<DrawText(FormatDateForSevenSegment(Instants[cur.current_dt]),
                            Omitted, Arg(date_y), date_color, Arg(TRUE), Arg(TRUE))>>
            ELSE <<>>)
        \o <<UpdateDisplay>>

\* display(), standard style, lines 435-498: the calls it makes when none
\* fails.  self.current_time is read at line 445 without a default.
DisplayStandard(cur) ==
    LET time_width == IF font_char_width # 0
                      THEN Len(cur.current_time) * font_char_width
                      ELSE Len(cur.current_time) * 6
        ampm_x == (width + time_width) \div 2 + 4
    IN  IF ~HasAttr(cur.current_time)
        THEN <<Clear, AttributeError>>
        ELSE
        <<Clear,
          DrawText(cur.current_time, Omitted, Arg(4), time_color, Arg(TRUE), Omitted)>>
        \o (IF time_format = "12h" /\ HasAttr(cur.current_ampm)
            THEN <<DrawText(cur.current_ampm, Arg(ampm_x), Arg(4), ampm_color,
                            Arg(TRUE), Omitted)>>
            ELSE <<>>)
        \o (IF show_date /\ HasAttr(cur.current_date)
            THEN IF date_format = "OLD_CLOCK" /\ HasAttr(cur.current_weekday)
                 THEN <<DrawText(cur.current_weekday, Omitted, Arg(height - 18),
                                 date_color, Arg(TRUE), Omitted),
                        DrawText(cur.current_date, Omitted, Arg(height - 9),
                                 date_color, Arg(TRUE), Omitted)>>
                 ELSE <<DrawText(cur.current_date, Omitted, Arg(height - 9),
                                 date_color, Arg(TRUE), Omitted)>>
            ELSE <<>>)
        \o <<UpdateDisplay>>

\* The except branch of display(): the error screen.
DisplayError ==
    <<Clear,
      DrawText(<<"C", "l", "o", "c", "k", " ", "E", "r", "r", "o", "r">>,
               Arg(5), Arg(15), <<255, 0, 0>>, Omitted, Omitted),
      UpdateDisplay>>

\* The display-manager methods that may raise during one display().
FailKinds == {"none", "clear", "rectangle", "draw_text", "update_display"}

\* The first of the planned steps that raises when method kind is failing
\* (0 when none does).
FailIndex(planned, kind) ==
    LET hits == {i \in 1..Len(planned) :
                    planned[i].op = kind \/ planned[i] = AttributeError}
    IN  IF hits = {} THEN 0 ELSE CHOOSE i \in hits : \A j \in hits : i <= j

\* The calls issued up to and including the one that raises.
Issued(planned, kind) ==
    LET k == FailIndex(planned, kind)
    IN  IF k = 0 THEN planned
        ELSE SubSeq(planned, 1, k - 1)
             \o (IF planned[k] = AttributeError THEN <<>>
                 ELSE <<[planned[k] EXCEPT !.ok = FALSE]>>)

\* The display manager carrying out the calls c, from device state d: clear
\* empties the canvas, rectangle and draw_text draw on it, update_display
\* pushes it to the panel; a call that raises does nothing.
RECURSIVE Perform(_, _)
Perform(c, d) ==
    IF c = <<>> THEN d
    ELSE LET h == Head(c)
             e == CASE ~h.ok -> d
                    [] h.op = "clear" -> [d EXCEPT !.canvas = <<>>]
                    [] h.op = "update_display" -> [d EXCEPT !.shown = d.canvas]
                    [] OTHER -> [d EXCEPT !.canvas = Append(d.canvas, h)]
         IN  Perform(Tail(c), e)

-----------------------------------------------------------------------------
(* display(): change detection *)

\* force_clear ignored.
SevenSegmentNeedsRedrawNoForce(force_clear, cur) ==
    LET current_time_str == GetAttr(cur.current_time, <<>>)
    IN  current_time_str # last_time_str

\* Seven-segment style, lines 408-410: whether the frame is drawn.
SevenSegmentNeedsRedraw(force_clear, cur) ==
    LET current_time_str == GetAttr(cur.current_time, <<>>)
    IN  ~(~force_clear /\ current_time_str = last_time_str)

\* Lines 415-418: the strings compared with the last_* attributes.
CurrentStrings(cur) ==
    [time    |-> GetAttr(cur.current_time, <<>>),
     ampm    |-> IF time_format = "12h" THEN GetAttr(cur.current_ampm, <<>>) ELSE <<>>,
     date    |-> IF show_date THEN GetAttr(cur.current_date, <<>>) ELSE <<>>,
     weekday |-> IF show_date /\ date_format = "OLD_CLOCK"
                 THEN GetAttr(cur.current_weekday, <<>>) ELSE <<>>]

\* Standard style, lines 420-429: whether the frame is drawn.
StandardNeedsRedraw(force_clear, cur) ==
    LET c == CurrentStrings(cur)
        current_display_str == Strip(c.time \o <<" ">> \o c.ampm)
        last_display_str ==
            IF Truthy(last_time_str)
            THEN Strip(Format(last_time_str) \o <<" ">> \o Format(last_ampm_str))
            ELSE <<>>
    IN  force_clear
        \/ current_display_str # last_display_str
        \/ c.date # last_date_str
        \/ c.weekday # last_weekday_str

-----------------------------------------------------------------------------
(* The plugin as a state machine: Spec *)

\* The display managers the plugin is run on: a 64x32 panel without font
\* metrics and a 128x32 panel whose font is 5 pixels per character.  Seconds
\* are shown on the 128 pixel panel only (the seven-segment line with seconds
\* is 92 pixels wide at 64), and the seven-segment style, which never reads
\* current_date, runs with the default date_format.
DisplayManagers ==
    {[width |-> 64, height |-> 32, font_char_width |-> 0],
     [width |-> 128, height |-> 32, font_char_width |-> 5]}

\* No operation was invoked yet.
NoCall ==
    [op |-> "none", force_clear |-> FALSE, ufail |-> "none",
     fail |-> "none", fbfail |-> "none"]

Init ==
    /\ \E dm \in DisplayManagers :
          /\ width = dm.width
          /\ height = dm.height
          /\ font_char_width = dm.font_char_width
    /\ pytz = TRUE
    /\ now = 1
    /\ faults = 0
    /\ canvas = <<>>
    /\ shown = <<>>
    /\ timezone_str = "UTC"
    /\ time_format \in {"12h", "24h"}
    /\ show_seconds = (width = 128)
    /\ show_date \in BOOLEAN
    /\ display_style \in {"standard", "seven_segment"}
    /\ date_format \in (IF display_style = "standard"
                        THEN {"MM/DD/YYYY", "DD/MM/YYYY", "YYYY-MM-DD", "OLD_CLOCK"}
                        ELSE {"MM/DD/YYYY"})
    /\ time_color = <<255, 255, 255>>
    /\ date_color = <<255, 128, 64>>
    /\ ampm_color = <<255, 255, 128>>
    /\ segment_color = <<255, 255, 255>>
    /\ current_dt = 0
    /\ current_time = Unset
    /\ current_ampm = Unset
    /\ current_date = Unset
    /\ current_weekday = Unset
    /\ last_time_str = PyNone
    /\ last_ampm_str = PyNone
    /\ last_date_str = PyNone
    /\ last_weekday_str = PyNone
    /\ pc = "idle"
    /\ call = NoCall
    /\ cmds = <<>>
    /\ ret = NoneVal
    /\ time_str = <<>>
    /\ idx = 0
    /\ start_x = 0
    /\ current_x = 0
    /\ estimated_width = 0

\* Time passes.
Tick ==
    /\ now < Len(Instants)
    /\ now' = now + 1
    /\ UNCHANGED <<env, config, current, last, pc, call, cmds, ret, segLocals>>

SetCurrent(cur) ==
    /\ current_dt' = cur.current_dt
    /\ current_time' = cur.current_time
    /\ current_ampm' = cur.current_ampm
    /\ current_date' = cur.current_date
    /\ current_weekday' = cur.current_weekday

\* Whether a failure input names a statement that raises.
Raised(f) == IF f = "none" THEN 0 ELSE 1

\* The update failure points that the configuration executes.
UpdateFails == IF show_date THEN UpdateFailPoints ELSE UpdateFailPoints \ {"date"}

\* The host calls update(); the statement at ufail raises.
UpdateCall ==
    \E ufail \in (IF faults < MaxFaults THEN UpdateFails ELSE {"none"}) :
        /\ faults' = faults + Raised(ufail)
        /\ SetCurrent(UpdateRaising(now, ufail))
        /\ call' = [op |-> "update", force_clear |-> FALSE, ufail |-> ufail,
                    fail |-> "none", fbfail |-> "none"]
        /\ cmds' = <<>>
        /\ UNCHANGED <<host, device, now, config, last, pc, ret, segLocals>>

\* display() returning at line 410 or 432: nothing is drawn.
DisplaySkip(cur) ==
    /\ cmds' = <<>>
    /\ ret' = NoneVal
    /\ UNCHANGED last

\* Lines 387 and 501-506: the last_* attributes after a frame was pushed.
TrackLast(cur) ==
    IF display_style = "seven_segment"
    THEN /\ last_time_str' = GetAttr(cur.current_time, <<"0", "0", ":", "0", "0">>)
         /\ UNCHANGED <<last_ampm_str, last_date_str, last_weekday_str>>
    ELSE LET c == CurrentStrings(cur)
         IN  /\ last_time_str' = c.time
             /\ last_ampm_str' =
                    IF time_format = "12h" THEN c.ampm ELSE last_ampm_str
             /\ last_date_str' = c.date
             /\ last_weekday_str' =
                    IF show_date /\ date_format = "OLD_CLOCK"
                    THEN c.weekday ELSE last_weekday_str

\* The last_* attributes assigned before the frame is drawn.
DisplayDrawTracksFirst(cur, planned, fail, fbfail) ==
    IF FailIndex(planned, fail) = 0
    THEN /\ cmds' = planned
         /\ ret' = NoneVal
         /\ TrackLast(cur)
    ELSE /\ cmds' = Issued(planned, fail) \o Issued(DisplayError, fbfail)
         /\ ret' = NoneVal
         /\ TrackLast(cur)

\* display() drawing a frame; method fail of the display manager raises, and
\* method fbfail raises while the error screen is drawn.
DisplayDraw(cur, planned, fail, fbfail) ==
    IF FailIndex(planned, fail) = 0
    THEN /\ cmds' = planned
         /\ ret' = NoneVal
         /\ TrackLast(cur)
    ELSE \* except Exception (line 510), and the bare except of line 521
         /\ cmds' = Issued(planned, fail) \o Issued(DisplayError, fbfail)
         /\ ret' = NoneVal
         /\ UNCHANGED last

\* The methods among kinds that one of the planned calls uses.
Used(planned, kinds) ==
    {k \in kinds : LET i == FailIndex(planned, k)
                   IN  i # 0 /\ planned[i].op = k}

\* The methods that may raise while the error screen is drawn: the method
\* that raised in the frame; any method when the frame raised on its own.
FallbackFails(planned, fail) ==
    IF fail # "none" THEN Used(DisplayError, {fail})
    ELSE IF FailIndex(planned, fail) # 0 THEN Used(DisplayError, FailKinds)
    ELSE {}

\* The host calls display(force_clear).  display() calls update(), in which
\* the statement at ufail raises.  When a frame is drawn, either no call
\* raises or the first call of method fail does; the error screen is then
\* drawn, during which method fbfail raises (FallbackFails) or none does.
\* No more than MaxFaults statements raise in one behaviour.
Display ==
    \E ufail \in (IF faults < MaxFaults THEN UpdateFails ELSE {"none"}) :
        LET cur == UpdateRaising(now, ufail)
            planned == IF display_style = "seven_segment"
                       THEN DisplaySevenSegment(cur)
                       ELSE DisplayStandard(cur)
            f1 == faults + Raised(ufail)
        IN  \E force_clear \in BOOLEAN :
                LET redraw == IF display_style = "seven_segment"
                              THEN SevenSegmentNeedsRedraw(force_clear, cur)
                              ELSE StandardNeedsRedraw(force_clear, cur)
                IN  \E fail \in {"none"} \cup
                                (IF redraw /\ f1 < MaxFaults
                                 THEN Used(planned, FailKinds) ELSE {}) :
                    LET f2 == f1 + Raised(fail)
                    IN  \E fbfail \in {"none"} \cup
                                      (IF redraw /\ f2 < MaxFaults
                                       THEN FallbackFails(planned, fail) ELSE {}) :
                            /\ faults' = f2 + Raised(fbfail)
                            /\ SetCurrent(cur)
                            /\ call' = [op |-> "display", force_clear |-> force_clear,
                                        ufail |-> ufail, fail |-> fail, fbfail |-> fbfail]
                            /\ IF redraw
                               THEN DisplayDraw(cur, planned, fail, fbfail)
                               ELSE DisplaySkip(cur)
                            /\ LET d == Perform(cmds', [canvas |-> canvas,
                                                        shown |-> shown])
                               IN  canvas' = d.canvas /\ shown' = d.shown
                            /\ UNCHANGED <<host, now, config, pc, segLocals>>

Next == Tick \/ UpdateCall \/ Display

Spec == Init /\ [][Next]_vars

-----------------------------------------------------------------------------
(* Properties of display(), checked under Spec *)

\* The current_* attributes as one record.
Cur ==
    [current_dt |-> current_dt, current_time |-> current_time,
     current_ampm |-> current_ampm, current_date |-> current_date,
     current_weekday |-> current_weekday]

\* A step that is one call of display().
DisplayStep == call'.op = "display" /\ now' = now

\* The calls of a frame that was drawn and pushed without a failure.
Completed(c) ==
    /\ c # <<>>
    /\ c[1].op = "clear"
    /\ c[Len(c)].op = "update_display"
    /\ \A i \in 1..Len(c) : c[i].ok

\* C7: in the standard style, for every configuration, once display() has
\* drawn a frame, a following display(force_clear=False) whose time, AM/PM,
\* date and weekday strings are all unchanged issues no display-manager call
\* (stated for a following call during which nothing raises).
C7_NoRedundantRedraw ==
    [][(/\ display_style = "standard"
        /\ call.op = "display"
        /\ Completed(cmds)
        /\ DisplayStep
        /\ ~call'.force_clear
        /\ call'.ufail = "none"
        /\ call'.fail = "none"
        /\ CurrentStrings(Cur)' = CurrentStrings(Cur))
       => cmds' = <<>>
    ]_vars

IsRectangle(c) == c.op = "rectangle"

\* C10: in the seven-segment style display(force_clear=False) issues calls
\* if and only if the current time string differs from last_time_str,
\* display(force_clear=True) always does, and after every completed redraw
\* last_time_str is the time string whose rectangles were just drawn.
C10_SevenSegmentRedrawIffTimeChanged ==
    [][(display_style = "seven_segment" /\ DisplayStep) =>
        /\ (cmds' # <<>>) <=>
              (call'.force_clear \/ GetAttr(current_time', <<>>) # last_time_str)
        /\ Completed(cmds') =>
              /\ last_time_str' = GetAttr(current_time', <<"0", "0", ":", "0", "0">>)
              /\ SelectSeq(cmds', IsRectangle) =
                    DrawSevenSegmentTime(last_time_str', StartX(last_time_str', width),
                                         StartY, segment_color, width).cmds
    ]_vars

\* display(force_clear=False) at the third instant: the 12h time string is
\* the one drawn before, the date is not, and nothing is drawn.
C10_Witness ==
    /\ display_style = "seven_segment"
    /\ time_format = "12h"
    /\ ~show_seconds
    /\ call.op = "display"
    /\ ~call.force_clear
    /\ current_dt = 3
    /\ cmds = <<>>
    /\ last_time_str = <<"1", ":", "0", "5">>

\* The error screen: clear, 'Clock Error' at (5, 15) in red, update_display.
ErrorCalls ==
    <<[op |-> "clear", ok |-> TRUE],
      [op |-> "draw_text",
       text |-> <<"C", "l", "o", "c", "k", " ", "E", "r", "r", "o", "r">>,
       x |-> <<5>>, y |-> <<15>>, color |-> <<255, 0, 0>>,
       small_font |-> <<>>, centered |-> <<>>, ok |-> TRUE],
      [op |-> "update_display", ok |-> TRUE]>>

\* c is the error screen drawn while method fb raises: all three calls when
\* none raises, else the calls up to the one that raises, and nothing after.
ErrorPath(c, fb) ==
    IF fb = "none"
    THEN c = ErrorCalls
    ELSE \E k \in 1..Len(ErrorCalls) :
            /\ ErrorCalls[k].op = fb
            /\ Len(c) = k
            /\ \A i \in 1..(k - 1) : c[i] = ErrorCalls[i]
            /\ c[k] = [ErrorCalls[k] EXCEPT !.ok = FALSE]

\* The number of calls before the first one that raised.
CallsBeforeFailure(c) ==
    Cardinality({i \in 1..Len(c) : \A j \in 1..i : c[j].ok})

\* C11 as stated: display() returns normally, and when update() or a drawing
\* call fails the calls it issued end with the error screen (cut where the
\* error screen itself fails) and the last_* attributes are unchanged.
C11_ErrorScreenOnAnyFailure ==
    [][DisplayStep =>
        /\ ret' = NoneVal
        /\ (call'.ufail # "none" \/ call'.fail # "none") =>
              /\ \E m \in 0..Len(cmds') :
                    ErrorPath(SubSeq(cmds', m + 1, Len(cmds')), call'.fbfail)
              /\ UNCHANGED last
    ]_vars

\* C11, amended: display() returns normally in both styles.  A failure inside
\* update() is caught by update() itself: display() goes on with the
\* current_* attributes update() left and shows no error screen for it.  When
\* a drawing call raises, or the standard style reads current_time that was
\* never set, display() issues clear, draw_text('Clock Error', x=5, y=15,
\* color=(255, 0, 0)), update_display, stopping at the first of them that
\* raises, and leaves the last_* attributes unchanged.  Otherwise it issues
\* nothing or a complete frame without the error text.
C11_DisplayCatchesFailures ==
    [][DisplayStep =>
        /\ ret' = NoneVal
        /\ IF call'.fail # "none"
           THEN LET m == CallsBeforeFailure(cmds')
                IN  /\ m < Len(cmds')
                    /\ cmds'[m + 1].op = call'.fail
                    /\ ErrorPath(SubSeq(cmds', m + 2, Len(cmds')), call'.fbfail)
                    /\ UNCHANGED last
           ELSE IF display_style = "standard" /\ ~HasAttr(current_time')
           THEN /\ cmds' # <<>>
                /\ cmds'[1] = ErrorCalls[1]
                /\ ErrorPath(Tail(cmds'), call'.fbfail)
                /\ UNCHANGED last
           ELSE /\ cmds' = <<>> \/ Completed(cmds')
                /\ \A i \in 1..Len(cmds') : cmds'[i] # ErrorCalls[2]
    ]_vars

\* A frame whose draw_text raised, followed by an error screen whose
\* draw_text raised too.
C11_Witness ==
    /\ call.op = "display"
    /\ call.fail = "draw_text"
    /\ call.fbfail = "draw_text"
    /\ Len(cmds) = 4
    /\ ~cmds[2].ok
    /\ cmds[4] = [ErrorCalls[2] EXCEPT !.ok = FALSE]
    /\ last_time_str = PyNone
    /\ ret = NoneVal

\* The frame f is the error screen.
IsErrorFrame(f) == \E i \in 1..Len(f) : f[i] = ErrorCalls[2]

\* The frame f is a clock frame for the time string t: in the seven-segment
\* style its rectangles are those of t, centered; in the standard style its
\* first text is t, at y = 4 in time_color.
IsClockFrameFor(f, t) ==
    IF display_style = "seven_segment"
    THEN /\ ~IsErrorFrame(f)
         /\ SelectSeq(f, IsRectangle) =
                DrawSevenSegmentTime(t, StartX(t, width), StartY,
                                     segment_color, width).cmds
    ELSE /\ f # <<>>
         /\ f[1].op = "draw_text"
         /\ f[1].text = t
         /\ f[1].y = <<4>>
         /\ f[1].color = time_color

\* C12: whenever display(force_clear=False) returns without issuing any
\* draw command, the frame most recently pushed to the display is a clock
\* frame for the current time string and not the 'Clock Error' screen.
C12_SkipOnlyOverClockFrame ==
    [][(DisplayStep /\ ~call'.force_clear /\ cmds' = <<>>) =>
        /\ ~IsErrorFrame(shown')
        /\ IsClockFrameFor(shown', GetAttr(current_time', <<"0", "0", ":", "0", "0">>))
    ]_vars

-----------------------------------------------------------------------------
(* validate_config(): SpecValidate *)

\* The names pytz.timezone() accepts.
KnownTimezones == {"UTC", "America/New_York"}

\* Lines 566-577, for a colour as __init__ leaves it: a tuple of integers.
ValidColorLoose(color_value) ==
    Len(color_value) = 3

ValidColor(color_value) ==
    /\ Len(color_value) = 3
    /\ \A i \in 1..Len(color_value) : 0 <= color_value[i] /\ color_value[i] <= 255

\* validate_config(): its return value, parent_ok being that of
\* super().validate_config().
ValidateConfig(parent_ok) ==
    IF ~parent_ok THEN FALSE
    ELSE IF display_style \notin {"standard", "seven_segment"} THEN FALSE
    ELSE IF pytz /\ timezone_str \notin KnownTimezones THEN FALSE
    ELSE IF time_format \notin {"12h", "24h"} THEN FALSE
    ELSE IF date_format \notin {"MM/DD/YYYY", "DD/MM/YYYY", "YYYY-MM-DD", "OLD_CLOCK"}
         THEN FALSE
    ELSE IF ~ValidColor(time_color) THEN FALSE
    ELSE IF ~ValidColor(date_color) THEN FALSE
    ELSE IF ~ValidColor(ampm_color) THEN FALSE
    ELSE IF ~ValidColor(segment_color) THEN FALSE
    ELSE TRUE

\* The colours a configuration may give: a valid one, one with two and one
\* with four channels, and channels above 255 and below 0.
ConfigColors ==
    {<<255, 128, 64>>, <<255, 255>>, <<0, 0, 0, 0>>, <<0, 256, 0>>, <<0, 0, -1>>}

InitValidate ==
    /\ width = 64
    /\ height = 32
    /\ font_char_width = 0
    /\ pytz \in BOOLEAN
    /\ now = 1
    /\ faults = 0
    /\ canvas = <<>>
    /\ shown = <<>>
    /\ timezone_str \in KnownTimezones \cup {"Mars/Olympus_Mons"}
    /\ time_format \in {"12h", "24h", "am/pm"}
    /\ show_seconds = FALSE
    /\ show_date = TRUE
    /\ date_format \in {"MM/DD/YYYY", "DD/MM/YYYY", "YYYY-MM-DD", "OLD_CLOCK", "ISO"}
    /\ display_style \in {"standard", "seven_segment", "analog"}
    /\ time_color \in ConfigColors
    /\ date_color \in ConfigColors
    /\ ampm_color \in ConfigColors
    /\ segment_color \in ConfigColors
    /\ current_dt = 0
    /\ current_time = Unset
    /\ current_ampm = Unset
    /\ current_date = Unset
    /\ current_weekday = Unset
    /\ last_time_str = PyNone
    /\ last_ampm_str = PyNone
    /\ last_date_str = PyNone
    /\ last_weekday_str = PyNone
    /\ pc = "idle"
    /\ call = NoCall
    /\ cmds = <<>>
    /\ ret = NoneVal
    /\ time_str = <<>>
    /\ idx = 0
    /\ start_x = 0
    /\ current_x = 0
    /\ estimated_width = 0

\* The host calls validate_config().
ValidateCall ==
    \E parent_ok \in BOOLEAN :
        /\ call.op = "none"
        /\ call' = [op |-> "validate_config", parent_ok |-> parent_ok]
        /\ ret' = ValidateConfig(parent_ok)
        /\ cmds' = <<>>
        /\ UNCHANGED <<env, now, config, current, last, pc, segLocals>>

NextValidate == ValidateCall

SpecValidate == InitValidate /\ [][NextValidate]_vars

\* The configuration is valid, as the documentation of the options states it.
RgbTriple(c) == Len(c) = 3 /\ \A i \in 1..Len(c) : c[i] \in 0..255

ConfigIsValid ==
    /\ display_style \in {"standard", "seven_segment"}
    /\ pytz => timezone_str \in KnownTimezones
    /\ time_format \in {"12h", "24h"}
    /\ date_format \in {"MM/DD/YYYY", "DD/MM/YYYY", "YYYY-MM-DD", "OLD_CLOCK"}
    /\ \A c \in {time_color, date_color, ampm_color, segment_color} : RgbTriple(c)

\* C8: validate_config returns True exactly when the parent validation
\* passes and the display style, the timezone (when pytz is available), the
\* time format, the date format and the four colours are valid, and it
\* changes no plugin state.
C8_ValidateConfigExact ==
    /\ [](call.op = "validate_config" =>
            (ret = TRUE <=> (call.parent_ok /\ ConfigIsValid)))
    /\ [][call'.op = "validate_config" => UNCHANGED <<config, current, last>>]_vars

\* Everything is valid but one channel of the segment colour, and the
\* configuration is refused.
C8_Witness ==
    /\ call.op = "validate_config"
    /\ call.parent_ok
    /\ pytz
    /\ display_style = "seven_segment"
    /\ timezone_str = "UTC"
    /\ time_format = "24h"
    /\ date_format = "YYYY-MM-DD"
    /\ time_color = <<255, 128, 64>>
    /\ date_color = <<255, 128, 64>>
    /\ ampm_color = <<255, 128, 64>>
    /\ segment_color = <<0, 256, 0>>
    /\ ret = FALSE

====
